---- MODULE Spec2Model ----
(***************************************************************************)
(* Availability / castability engine of actbeat-v2-shared.                 *)
(*                                                                         *)
(*   utils/combinations.ts : generateCombinations,                         *)
(*                           generateCombinationsAllowingMultipleRoles,    *)
(*                           countPossibleCombinations, validateCastability*)
(*   date utilities        : mergeTimeBlocks, subtractTimeBlock(s),        *)
(*                           intersectTimeBlocks, isTimeBlockOverlapping   *)
(*                                                                         *)
(* All of these are synchronous pure functions.  Each is an operator that  *)
(* follows the statements of the function; a specification draws the       *)
(* arguments in Init and has one action per exported function, which       *)
(* records the call and the value it returned.                             *)
(***************************************************************************)
EXTENDS Integers, Sequences, FiniteSets, TLC

VARIABLES characterActors, blocks, blocksB, block, events, op, arg, ret,
          heap, arrays, locals, stack, pc

\* the arguments of the calls, as passed
inputs == <<characterActors, blocks, blocksB, block, events>>

\* a call in progress: the objects it can reach (heap: address -> object,
\* arrays: name -> list of addresses), its local variables, the frames of
\* recurse, and its position
steps == <<heap, arrays, locals, stack, pc>>

vars == <<characterActors, blocks, blocksB, block, events, op, arg, ret,
          heap, arrays, locals, stack, pc>>

(***************************************************************************)
(* Bounds of the model.                                                    *)
(***************************************************************************)
\* longest list of characters passed to the enumerator
MaxCharacters == 2
\* longest candidate list of one character
MaxActors == 2
\* longest list of time blocks
MaxBlocks == 3
\* instants are 0..MaxTime (dayjs valueOf(), scaled)
MaxTime == 3
\* longest list of events subtracted from one block
MaxEvents == 2
\* longest list on either side of an intersection
MaxOperand == 2
\* longest list of permissions passed to hasAnyPermission / hasAllPermissions
MaxPermissions == 2

ActorIdList == <<"x", "y", "z">>
ActorIds == {ActorIdList[m] : m \in DOMAIN ActorIdList}
CharacterIdList == <<"a", "b", "c", "d", "e">>

\* Sequences over S of length 0..n
SeqUpTo(S, n) == UNION {[1..k -> S] : k \in 0..n}

(***************************************************************************)
(* JavaScript objects used as Record<string, string>.                      *)
(***************************************************************************)
EmptyObject == [k \in {} |-> "x"]

\* obj[key] = value
SetProperty(obj, key, value) ==
  [k \in (DOMAIN obj) \cup {key} |-> IF k = key THEN value ELSE obj[k]]

\* delete obj[key]
DeleteProperty(obj, key) ==
  [k \in (DOMAIN obj) \ {key} |-> obj[k]]

(***************************************************************************)
(* generateCombinations (exclusive mode).                                  *)
(* The closure state of recurse is threaded through the recursion as       *)
(* st = [current, usedActors, results]: current and usedActors are the     *)
(* two objects every nested call shares and mutates in place, results is   *)
(* the array of the enclosing function.  index is 0-based as in the code.  *)
(***************************************************************************)
InitialSearch == [current |-> EmptyObject, usedActors |-> {}, results |-> <<>>]

\* results.push({ ...current })
PushCopy(st) == [st EXCEPT !.results = Append(@, st.current)]

\* variant: the exclusion test never fires
AlreadyUsed_never(usedActors, actorId) == FALSE

\* usedActors.has(actorId)
AlreadyUsed(usedActors, actorId) == actorId \in usedActors

\* current[characterId] = actorId; usedActors.add(actorId)
Assign(st, characterId, actorId) ==
  [st EXCEPT !.current = SetProperty(@, characterId, actorId),
             !.usedActors = @ \cup {actorId}]

\* variant: the used marker is not rolled back
Unassign_keepUsed(st, characterId, actorId) ==
  [st EXCEPT !.current = DeleteProperty(@, characterId)]

\* delete current[characterId]; usedActors.delete(actorId)
Unassign(st, characterId, actorId) ==
  [st EXCEPT !.current = DeleteProperty(@, characterId),
             !.usedActors = @ \ {actorId}]

\* variant: the loop stops one element early
LoopDone_early(actors, k) == k >= Len(actors)

\* the for...of loop over actors has run past the last element
LoopDone(actors, k) == k > Len(actors)

RECURSIVE recurse(_, _, _)
RECURSIVE forEachActor(_, _, _, _)

\* for (const actorId of actors) { ... }, from the k-th actor on
forEachActor(chars, index, k, st) ==
  LET charInfo == chars[index + 1]
      actorId == charInfo.actors[k]
  IN IF LoopDone(charInfo.actors, k) THEN st
     ELSE IF AlreadyUsed(st.usedActors, actorId)
          THEN forEachActor(chars, index, k + 1, st)
          ELSE forEachActor(chars, index, k + 1,
                 Unassign(recurse(chars, index + 1,
                                  Assign(st, charInfo.characterId, actorId)),
                          charInfo.characterId, actorId))

recurse(chars, index, st) ==
  IF index = Len(chars) THEN PushCopy(st)
  ELSE IF Len(chars[index + 1].actors) = 0 THEN st
  ELSE forEachActor(chars, index, 1, st)

\* variant: no early return for the empty list
generateCombinations_noGuard(chars) ==
  recurse(chars, 0, InitialSearch).results

generateCombinations(chars) ==
  IF Len(chars) = 0 THEN <<>>
  ELSE recurse(chars, 0, InitialSearch).results

(***************************************************************************)
(* generateCombinationsAllowingMultipleRoles (multi-role mode).            *)
(* Same closure state without usedActors: st = [current, results].         *)
(***************************************************************************)
InitialSearchMulti == [current |-> EmptyObject, results |-> <<>>]

\* current[characterId] = actorId
AssignMulti(st, characterId, actorId) ==
  [st EXCEPT !.current = SetProperty(@, characterId, actorId)]

\* delete current[characterId]
UnassignMulti(st, characterId) ==
  [st EXCEPT !.current = DeleteProperty(@, characterId)]

RECURSIVE recurseMulti(_, _, _)
RECURSIVE forEachActorMulti(_, _, _, _)

forEachActorMulti(chars, index, k, st) ==
  LET charInfo == chars[index + 1]
      actorId == charInfo.actors[k]
  IN IF LoopDone(charInfo.actors, k) THEN st
     ELSE forEachActorMulti(chars, index, k + 1,
            UnassignMulti(recurseMulti(chars, index + 1,
                                       AssignMulti(st, charInfo.characterId, actorId)),
                          charInfo.characterId))

recurseMulti(chars, index, st) ==
  IF index = Len(chars) THEN PushCopy(st)
  ELSE IF Len(chars[index + 1].actors) = 0 THEN st
  ELSE forEachActorMulti(chars, index, 1, st)

generateCombinationsAllowingMultipleRoles(chars) ==
  IF Len(chars) = 0 THEN <<>>
  ELSE recurseMulti(chars, 0, InitialSearchMulti).results

(***************************************************************************)
(* countPossibleCombinations.                                              *)
(***************************************************************************)
MinOf(a, b) == IF a <= b THEN a ELSE b
MaxOf(a, b) == IF a >= b THEN a ELSE b

\* characterActors.reduce((total, char) => total * char.actors.length, 1)
RECURSIVE ProductOfActorCounts(_, _)
ProductOfActorCounts(chars, n) ==
  IF n = 0 THEN 1
  ELSE ProductOfActorCounts(chars, n - 1) * Len(chars[n].actors)

\* variant: actors counted without the Set
RECURSIVE TotalActors_noDedupe(_)
TotalActors_noDedupe(chars) ==
  IF chars = <<>> THEN 0
  ELSE Len(Head(chars).actors) + TotalActors_noDedupe(Tail(chars))

\* new Set(characterActors.flatMap((c) => c.actors)).size
TotalActors(chars) ==
  Cardinality(UNION {{chars[i].actors[k] : k \in DOMAIN chars[i].actors} :
                       i \in DOMAIN chars})

\* the loop over actorCounts: estimate *= Math.max(0, count - i), i 0-based;
\* n is the number of factors already multiplied in
RECURSIVE Estimate(_, _)
Estimate(chars, n) ==
  IF n = 0 THEN 1
  ELSE Estimate(chars, n - 1) * MaxOf(0, Len(chars[n].actors) - (n - 1))

\* variant: no early return for the empty list
countPossibleCombinations_noGuard(chars, allowMultipleRoles) ==
  IF allowMultipleRoles THEN ProductOfActorCounts(chars, Len(chars))
  ELSE IF Len(chars) > TotalActors(chars) THEN 0
  ELSE MaxOf(0, Estimate(chars, Len(chars)))

countPossibleCombinations(chars, allowMultipleRoles) ==
  IF Len(chars) = 0 THEN 0
  ELSE IF allowMultipleRoles THEN ProductOfActorCounts(chars, Len(chars))
  ELSE IF Len(chars) > TotalActors(chars) THEN 0
  ELSE MaxOf(0, Estimate(chars, Len(chars)))

(***************************************************************************)
(* validateCastability.                                                    *)
(***************************************************************************)
\* variant: a character with a single candidate counts as uncastable
IsUncastable_atMostOne(c) == Len(c.actors) <= 1

\* the filter predicate (c) => c.actors.length === 0
IsUncastable(c) == Len(c.actors) = 0

\* .map((c) => c.characterId)
RECURSIVE MapCharacterId(_)
MapCharacterId(chars) ==
  IF chars = <<>> THEN <<>>
  ELSE <<Head(chars).characterId>> \o MapCharacterId(Tail(chars))

validateCastability(chars) ==
  LET uncastable == MapCharacterId(SelectSeq(chars, IsUncastable))
  IN [valid |-> Len(uncastable) = 0, uncastableCharacterIds |-> uncastable]

(***************************************************************************)
(* mergeTimeBlocks.  A block is [start, end], both instants.               *)
(***************************************************************************)
\* [...blocks].sort((a, b) => a.start.valueOf() - b.start.valueOf()):
\* Array.prototype.sort is stable, so blocks with equal start keep their order
RECURSIVE InsertByStart(_, _)
InsertByStart(sorted, b) ==
  IF sorted = <<>> THEN <<b>>
  ELSE LET last == sorted[Len(sorted)]
       IN IF last.start - b.start <= 0 THEN Append(sorted, b)
          ELSE Append(InsertByStart(SubSeq(sorted, 1, Len(sorted) - 1), b), last)

RECURSIVE SortByStart(_)
SortByStart(bs) ==
  IF bs = <<>> THEN <<>>
  ELSE InsertByStart(SortByStart(SubSeq(bs, 1, Len(bs) - 1)), bs[Len(bs)])

\* variant: isBefore, touching blocks are not merged
MergesIntoLast_strict(current, last) == current.start < last.end

\* current.start.isSameOrBefore(last.end)
MergesIntoLast(current, last) == current.start <= last.end

\* variant: the end of the merged block is overwritten
ExtendedEnd_current(last, current) == current.end

\* last.end = dayjs.max(last.end, current.end)
ExtendedEnd(last, current) == MaxOf(last.end, current.end)

\* variant: current is compared with the block before it in sorted, not
\* with the last merged block
RECURSIVE mergeLoop_previousSorted(_, _, _)
mergeLoop_previousSorted(sorted, i, merged) ==
  IF i > Len(sorted) THEN merged
  ELSE LET current == sorted[i]
           last == merged[Len(merged)]
       IN IF MergesIntoLast(current, sorted[i - 1])
          THEN mergeLoop_previousSorted(sorted, i + 1,
                 [merged EXCEPT ![Len(merged)].end = ExtendedEnd(last, current)])
          ELSE mergeLoop_previousSorted(sorted, i + 1,
                 Append(merged, [start |-> current.start, end |-> current.end]))

\* the loop for (let i = 1; i < sorted.length; i++), i 1-based here
RECURSIVE mergeLoop(_, _, _)
mergeLoop(sorted, i, merged) ==
  IF i > Len(sorted) THEN merged
  ELSE LET current == sorted[i]
           last == merged[Len(merged)]
       IN IF MergesIntoLast(current, last)
          THEN mergeLoop(sorted, i + 1,
                 [merged EXCEPT ![Len(merged)].end = ExtendedEnd(last, current)])
          ELSE mergeLoop(sorted, i + 1,
                 Append(merged, [start |-> current.start, end |-> current.end]))

mergeTimeBlocks(bs) ==
  IF Len(bs) = 0 THEN <<>>
  ELSE LET sorted == SortByStart(bs)
       IN mergeLoop(sorted, 2, <<[start |-> sorted[1].start, end |-> sorted[1].end]>>)

(***************************************************************************)
(* subtractTimeBlock, subtractTimeBlocks.                                  *)
(***************************************************************************)
\* variant: only "event ends before the block" counts as no overlap
NoOverlap_onlyBefore(blk, event) == event.end <= blk.start

\* event.end.isSameOrBefore(block.start) || event.start.isSameOrAfter(block.end)
NoOverlap(blk, event) == event.end <= blk.start \/ event.start >= blk.end

\* event.start.isAfter(block.start)
HasPartBefore(blk, event) == event.start > blk.start

\* variant: isSameOrBefore
HasPartAfter_orSame(blk, event) == event.end <= blk.end

\* event.end.isBefore(block.end)
HasPartAfter(blk, event) == event.end < blk.end

\* { start: block.start, end: event.start }
PartBefore(blk, event) == [start |-> blk.start, end |-> event.start]

\* variant: the fragment after the event starts where the event starts
PartAfter_fromEventStart(blk, event) == [start |-> event.start, end |-> blk.end]

\* { start: event.end, end: block.end }
PartAfter(blk, event) == [start |-> event.end, end |-> blk.end]

subtractTimeBlock(blk, event) ==
  IF NoOverlap(blk, event) THEN <<blk>>
  ELSE (IF HasPartBefore(blk, event) THEN <<PartBefore(blk, event)>> ELSE <<>>)
       \o (IF HasPartAfter(blk, event) THEN <<PartAfter(blk, event)>> ELSE <<>>)

\* variant: only the first remaining block is cut, the others are kept
subtractFromEach_firstOnly(remaining, event) ==
  IF remaining = <<>> THEN <<>>
  ELSE subtractTimeBlock(Head(remaining), event) \o Tail(remaining)

\* for (const availBlock of remaining) newRemaining.push(...subtractTimeBlock(...))
RECURSIVE subtractFromEach(_, _)
subtractFromEach(remaining, event) ==
  IF remaining = <<>> THEN <<>>
  ELSE subtractTimeBlock(Head(remaining), event)
       \o subtractFromEach(Tail(remaining), event)

\* for (const event of events) { ...; remaining = newRemaining }
RECURSIVE subtractLoop(_, _)
subtractLoop(remaining, evs) ==
  IF evs = <<>> THEN remaining
  ELSE subtractLoop(subtractFromEach(remaining, Head(evs)), Tail(evs))

subtractTimeBlocks(blk, evs) == subtractLoop(<<blk>>, evs)

(***************************************************************************)
(* intersectTimeBlocks.                                                    *)
(***************************************************************************)
\* variant: isSameOrBefore, an empty overlap is emitted too
OverlapIsPositive_orEmpty(start, end) == start <= end

\* start.isBefore(end)
OverlapIsPositive(start, end) == start < end

\* variant: the first pointer always moves
AdvanceA_always(blockA, blockB) == TRUE

\* blockA.end.isSameOrBefore(blockB.end): i++, otherwise j++
AdvanceA(blockA, blockB) == blockA.end <= blockB.end

\* the while loop, i and j 1-based here
RECURSIVE intersectLoop(_, _, _, _, _)
intersectLoop(sortedA, sortedB, i, j, result) ==
  IF ~(i <= Len(sortedA) /\ j <= Len(sortedB)) THEN result
  ELSE LET blockA == sortedA[i]
           blockB == sortedB[j]
           start == MaxOf(blockA.start, blockB.start)
           end == MinOf(blockA.end, blockB.end)
           emitted == IF OverlapIsPositive(start, end)
                      THEN Append(result, [start |-> start, end |-> end])
                      ELSE result
       IN IF AdvanceA(blockA, blockB)
          THEN intersectLoop(sortedA, sortedB, i + 1, j, emitted)
          ELSE intersectLoop(sortedA, sortedB, i, j + 1, emitted)

intersectTimeBlocks(blocksA, blocksBArg) ==
  IF Len(blocksA) = 0 \/ Len(blocksBArg) = 0 THEN <<>>
  ELSE intersectLoop(SortByStart(blocksA), SortByStart(blocksBArg), 1, 1, <<>>)

(***************************************************************************)
(* isTimeBlockOverlapping.                                                 *)
(***************************************************************************)
\* variant: isSameOrBefore / isSameOrAfter
isTimeBlockOverlapping_orTouching(a, b) == a.start <= b.end /\ a.end >= b.start

\* a.start.isBefore(b.end) && a.end.isAfter(b.start)
isTimeBlockOverlapping(a, b) == a.start < b.end /\ a.end > b.start

(***************************************************************************)
(* constants/permissions.ts: roles, permissions, role hierarchy.           *)
(***************************************************************************)
\* enum Role
Role == {"basic", "ghost", "actor", "admin"}

\* enum Permission
Permission == {"personal:read", "personal:edit", "org:basic:read",
               "org:basic:edit", "org:members:manage", "org:settings:manage"}

ROLE_PERMISSIONS ==
  [r \in Role |->
     CASE r = "basic" -> <<"personal:read", "personal:edit">>
       [] r = "ghost" -> <<"personal:read">>
       [] r = "actor" -> <<"org:basic:read">>
       [] r = "admin" -> <<"personal:read", "personal:edit", "org:basic:read",
                           "org:basic:edit", "org:members:manage",
                           "org:settings:manage">>]

ROLE_HIERARCHY == <<"ghost", "basic", "actor", "admin">>

\* Array.prototype.includes
Includes(list, x) == \E k \in DOMAIN list : list[k] = x

\* Array.prototype.indexOf, 0-based, -1 when x is not in the list
IndexOf(list, x) ==
  IF Includes(list, x)
  THEN (CHOOSE k \in DOMAIN list :
          list[k] = x /\ \A l \in DOMAIN list : list[l] = x => k <= l) - 1
  ELSE -1

hasPermission(role, permission) == Includes(ROLE_PERMISSIONS[role], permission)

\* [...ROLE_PERMISSIONS[role]]
getPermissionsForRole(role) == ROLE_PERMISSIONS[role]

\* permissions.some((p) => rolePermissions.includes(p))
hasAnyPermission(role, permissions) ==
  \E k \in DOMAIN permissions : Includes(ROLE_PERMISSIONS[role], permissions[k])

\* permissions.every((p) => rolePermissions.includes(p))
hasAllPermissions(role, permissions) ==
  \A k \in DOMAIN permissions : Includes(ROLE_PERMISSIONS[role], permissions[k])

isRoleAtLeast(role, minimumRole) ==
  IndexOf(ROLE_HIERARCHY, role) >= IndexOf(ROLE_HIERARCHY, minimumRole)

(***************************************************************************)
(* Objects and references.  heap lists the objects a call allocates or is  *)
(* handed, an address is a position in heap, and an array is a list of     *)
(* addresses, so that two names for one object and a write through either  *)
(* of them are visible.                                                    *)
(***************************************************************************)
\* the objects the addresses of refs stand for
RECURSIVE Deref(_, _)
Deref(h, refs) ==
  IF refs = <<>> THEN <<>> ELSE <<h[Head(refs)]>> \o Deref(h, Tail(refs))

\* the addresses given to n objects allocated after those of h
NewAddresses(h, n) == [i \in 1..n |-> Len(h) + i]

\* variant: the working object itself is pushed
PushCopyOf_sameObject(h, results, cur) ==
  [heap |-> h, results |-> Append(results, cur)]

\* results.push({ ...current }): a new object with the entries of current
PushCopyOf(h, results, cur) ==
  [heap |-> Append(h, h[cur]), results |-> Append(results, Len(h) + 1)]

\* the closure state of recurse as the enumerator's operators take it
SearchState(h, loc) ==
  [current |-> h[loc.current], usedActors |-> loc.usedActors, results |-> <<>>]

\* the same for the multi-role recurse, which has no usedActors
SearchStateMulti(h, loc) == [current |-> h[loc.current], results |-> <<>>]

\* the blocks behind refs, each with its address
WithAddress(h, refs) ==
  [i \in DOMAIN refs |->
     [start |-> h[refs[i]].start, end |-> h[refs[i]].end, ref |-> refs[i]]]

\* refs in the order .sort((a, b) => a.start.valueOf() - b.start.valueOf())
\* leaves them in
SortedRefs(h, refs) ==
  LET sorted == SortByStart(WithAddress(h, refs))
  IN [i \in DOMAIN sorted |-> sorted[i].ref]

\* variant: blocks.sort(...), the array passed in is sorted in place
SortedCopy_inPlace(h, arrs, from, to) ==
  [a \in (DOMAIN arrs) \cup {to} |->
     IF a \in {from, to} THEN SortedRefs(h, arrs[from]) ELSE arrs[a]]

\* const to = [...from].sort(...): a new array, from is left as it is
SortedCopy(h, arrs, from, to) ==
  [a \in (DOMAIN arrs) \cup {to} |->
     IF a = to THEN SortedRefs(h, arrs[from]) ELSE arrs[a]]

\* { start: ..., end: ... }: a new object
NewBlock(h, start, end) ==
  [heap |-> Append(h, [start |-> start, end |-> end]), ref |-> Len(h) + 1]

\* one turn of the loop of mergeTimeBlocks on the i-th sorted block (i
\* 1-based): last.end is written in place, or a new block is pushed
MergeBody(h, sorted, merged, i) ==
  LET current == h[sorted[i]]
      lastRef == merged[Len(merged)]
      last == h[lastRef]
  IN IF MergesIntoLast(current, last)
     THEN [heap |-> [h EXCEPT ![lastRef].end = ExtendedEnd(last, current)],
           merged |-> merged]
     ELSE LET new == NewBlock(h, current.start, current.end)
          IN [heap |-> new.heap, merged |-> Append(merged, new.ref)]

\* subtractTimeBlock on addresses: [block] is the block passed in, the
\* fragments are new objects
subtractTimeBlockRefs(h, blk, event) ==
  IF NoOverlap(h[blk], h[event]) THEN [heap |-> h, refs |-> <<blk>>]
  ELSE LET before == IF HasPartBefore(h[blk], h[event])
                     THEN <<PartBefore(h[blk], h[event])>> ELSE <<>>
           after == IF HasPartAfter(h[blk], h[event])
                    THEN <<PartAfter(h[blk], h[event])>> ELSE <<>>
       IN [heap |-> h \o before \o after,
           refs |-> NewAddresses(h, Len(before) + Len(after))]

\* for (const availBlock of remaining)
\*   newRemaining.push(...subtractTimeBlock(availBlock, event))
RECURSIVE subtractFromEachRefs(_, _, _)
subtractFromEachRefs(h, remaining, event) ==
  IF remaining = <<>> THEN [heap |-> h, refs |-> <<>>]
  ELSE LET first == subtractTimeBlockRefs(h, Head(remaining), event)
           rest == subtractFromEachRefs(first.heap, Tail(remaining), event)
       IN [heap |-> rest.heap, refs |-> first.refs \o rest.refs]

\* variant: the else branch does not move the second pointer
IntersectBody_noAdvanceB(h, sortedA, sortedB, result, i, j) ==
  LET blockA == h[sortedA[i + 1]]
      blockB == h[sortedB[j + 1]]
      start == MaxOf(blockA.start, blockB.start)
      end == MinOf(blockA.end, blockB.end)
  IN [heap |-> h,
      result |-> result,
      i |-> IF AdvanceA(blockA, blockB) THEN i + 1 ELSE i,
      j |-> j]

\* one turn of the while loop of intersectTimeBlocks at i, j (0-based)
IntersectBody(h, sortedA, sortedB, result, i, j) ==
  LET blockA == h[sortedA[i + 1]]
      blockB == h[sortedB[j + 1]]
      start == MaxOf(blockA.start, blockB.start)
      end == MinOf(blockA.end, blockB.end)
      new == NewBlock(h, start, end)
      positive == OverlapIsPositive(start, end)
  IN [heap |-> IF positive THEN new.heap ELSE h,
      result |-> IF positive THEN Append(result, new.ref) ELSE result,
      i |-> IF AdvanceA(blockA, blockB) THEN i + 1 ELSE i,
      j |-> IF AdvanceA(blockA, blockB) THEN j ELSE j + 1]

(***************************************************************************)
(* Specifications.                                                         *)
(***************************************************************************)
\* the i-th character takes one of the first i identifiers: every pattern
\* of equal and different character IDs, up to renaming
CharacterIdSeqs(n) ==
  {ids \in [1..n -> {CharacterIdList[j] : j \in 1..n}] :
     \A i \in 1..n : \E j \in 1..i : ids[i] = CharacterIdList[j]}

\* place of the first use of actor a in the lists, read left to right
\* (0 when a is not used)
FirstUse(lists, a) ==
  LET hits == UNION {{i * (MaxActors + 1) + k :
                        k \in {l \in DOMAIN lists[i] : lists[i][l] = a}} :
                      i \in DOMAIN lists}
  IN IF hits = {} THEN 0 ELSE CHOOSE u \in hits : \A v \in hits : u <= v

\* candidate lists may repeat an actor (actors: string[]); actors are named
\* in the order of their first use: every pattern of equal and different
\* actor IDs, up to renaming (the code only compares IDs for equality)
ActorListSeqs(n) ==
  {lists \in [1..n -> SeqUpTo(ActorIds, MaxActors)] :
     \A m \in 2..Len(ActorIdList) :
       FirstUse(lists, ActorIdList[m]) # 0 =>
         /\ FirstUse(lists, ActorIdList[m - 1]) # 0
         /\ FirstUse(lists, ActorIdList[m - 1]) < FirstUse(lists, ActorIdList[m])}

\* the candidate lists among them that name no actor twice
ActorSetSeqs(n) ==
  {lists \in ActorListSeqs(n) :
     \A c \in 1..n : \A i, j \in DOMAIN lists[c] :
       lists[c][i] = lists[c][j] => i = j}

MakeCharacters(ids, lists) ==
  [i \in DOMAIN ids |-> [characterId |-> ids[i], actors |-> lists[i]]]

\* start < end is expected of a block but not enforced by the type
TimeBlocks == [start : 0..MaxTime, end : 0..MaxTime]

NoCall == [none |-> TRUE]

NoArrays == [a \in {} |-> <<>>]
NoLocals == [none |-> TRUE]

\* no call is in progress
NoSteps ==
  /\ heap = <<>>
  /\ arrays = NoArrays
  /\ locals = NoLocals
  /\ stack = <<>>
  /\ pc = "idle"

\* value of the block argument in the specifications that do not pass one
NoBlock == [start |-> 0, end |-> 0]

\* SpecCast: the castability enumerator called on one list of characters
InitCast ==
  /\ \E n \in 0..MaxCharacters :
       \E ids \in CharacterIdSeqs(n), lists \in ActorListSeqs(n) :
         characterActors = MakeCharacters(ids, lists)
  /\ blocks = <<>>
  /\ blocksB = <<>>
  /\ block = NoBlock
  /\ events = <<>>
  /\ op = "idle"
  /\ arg = NoCall
  /\ ret = NoCall
  /\ NoSteps

CallGenerateCombinations ==
  /\ op = "idle"
  /\ op' = "generateCombinations"
  /\ arg' = NoCall
  /\ ret' = generateCombinations(characterActors)
  /\ UNCHANGED <<inputs, steps>>

CallGenerateCombinationsAllowingMultipleRoles ==
  /\ op = "idle"
  /\ op' = "generateCombinationsAllowingMultipleRoles"
  /\ arg' = NoCall
  /\ ret' = generateCombinationsAllowingMultipleRoles(characterActors)
  /\ UNCHANGED <<inputs, steps>>

CallCountPossibleCombinations ==
  /\ op = "idle"
  /\ \E allowMultipleRoles \in BOOLEAN :
       /\ arg' = [allowMultipleRoles |-> allowMultipleRoles]
       /\ ret' = countPossibleCombinations(characterActors, allowMultipleRoles)
  /\ op' = "countPossibleCombinations"
  /\ UNCHANGED <<inputs, steps>>

CallValidateCastability ==
  /\ op = "idle"
  /\ op' = "validateCastability"
  /\ arg' = NoCall
  /\ ret' = validateCastability(characterActors)
  /\ UNCHANGED <<inputs, steps>>

NextCast ==
  \/ CallGenerateCombinations
  \/ CallGenerateCombinationsAllowingMultipleRoles
  \/ CallCountPossibleCombinations
  \/ CallValidateCastability

SpecCast == InitCast /\ [][NextCast]_vars

\* SpecBlocks: the interval algebra called on one list of blocks
InitBlocks ==
  /\ blocks \in SeqUpTo(TimeBlocks, MaxBlocks)
  /\ characterActors = <<>>
  /\ blocksB = <<>>
  /\ block = NoBlock
  /\ events = <<>>
  /\ op = "idle"
  /\ arg = NoCall
  /\ ret = NoCall
  /\ NoSteps

CallMergeTimeBlocks ==
  /\ op = "idle"
  /\ op' = "mergeTimeBlocks"
  /\ arg' = NoCall
  /\ ret' = mergeTimeBlocks(blocks)
  /\ UNCHANGED <<inputs, steps>>

NextBlocks ==
  \/ CallMergeTimeBlocks

SpecBlocks == InitBlocks /\ [][NextBlocks]_vars

\* SpecCastDistinct: the enumerator and the pre-check called on a list of
\* characters whose IDs are all different
InitCastDistinct ==
  /\ \E n \in 0..MaxCharacters :
       \E lists \in ActorListSeqs(n) :
         characterActors = MakeCharacters([i \in 1..n |-> CharacterIdList[i]], lists)
  /\ blocks = <<>>
  /\ blocksB = <<>>
  /\ block = NoBlock
  /\ events = <<>>
  /\ op = "idle"
  /\ arg = NoCall
  /\ ret = NoCall
  /\ NoSteps

NextCastDistinct ==
  \/ CallGenerateCombinations
  \/ CallGenerateCombinationsAllowingMultipleRoles
  \/ CallValidateCastability

SpecCastDistinct == InitCastDistinct /\ [][NextCastDistinct]_vars

\* SpecSubtract: one block and a list of events; the single-event functions
\* are called on the block and the only event of a one-element list
InitSubtract ==
  /\ block \in TimeBlocks
  /\ events \in SeqUpTo(TimeBlocks, MaxEvents)
  /\ characterActors = <<>>
  /\ blocks = <<>>
  /\ blocksB = <<>>
  /\ op = "idle"
  /\ arg = NoCall
  /\ ret = NoCall
  /\ NoSteps

CallSubtractTimeBlock ==
  /\ op = "idle"
  /\ Len(events) = 1
  /\ op' = "subtractTimeBlock"
  /\ arg' = [event |-> events[1]]
  /\ ret' = subtractTimeBlock(block, events[1])
  /\ UNCHANGED <<inputs, steps>>

CallSubtractTimeBlocks ==
  /\ op = "idle"
  /\ op' = "subtractTimeBlocks"
  /\ arg' = NoCall
  /\ ret' = subtractTimeBlocks(block, events)
  /\ UNCHANGED <<inputs, steps>>

CallIsTimeBlockOverlapping ==
  /\ op = "idle"
  /\ Len(events) = 1
  /\ op' = "isTimeBlockOverlapping"
  /\ arg' = [event |-> events[1]]
  /\ ret' = isTimeBlockOverlapping(block, events[1])
  /\ UNCHANGED <<inputs, steps>>

NextSubtract ==
  \/ CallSubtractTimeBlock
  \/ CallSubtractTimeBlocks
  \/ CallIsTimeBlockOverlapping

SpecSubtract == InitSubtract /\ [][NextSubtract]_vars

\* SpecIntersect: two lists of blocks with start < end over the instants
\* 0..3; blocks is the first argument, blocksB the second
OperandBlocks == {b \in [start : {0, 1, 2, 3}, end : {0, 1, 2, 3}] : b.start < b.end}

InitIntersect ==
  /\ blocks \in SeqUpTo(OperandBlocks, MaxOperand)
  /\ blocksB \in SeqUpTo(OperandBlocks, MaxOperand)
  /\ characterActors = <<>>
  /\ block = NoBlock
  /\ events = <<>>
  /\ op = "idle"
  /\ arg = NoCall
  /\ ret = NoCall
  /\ NoSteps

CallIntersectTimeBlocks ==
  /\ op = "idle"
  /\ op' = "intersectTimeBlocks"
  /\ arg' = NoCall
  /\ ret' = intersectTimeBlocks(blocks, blocksB)
  /\ UNCHANGED <<inputs, steps>>

NextIntersect ==
  \/ CallIntersectTimeBlocks
  \/ CallMergeTimeBlocks

SpecIntersect == InitIntersect /\ [][NextIntersect]_vars

\* SpecRoles: the permission functions called on roles and permissions
InitRoles ==
  /\ characterActors = <<>>
  /\ blocks = <<>>
  /\ blocksB = <<>>
  /\ block = NoBlock
  /\ events = <<>>
  /\ op = "idle"
  /\ arg = NoCall
  /\ ret = NoCall
  /\ NoSteps

CallHasPermission ==
  /\ op = "idle"
  /\ \E role \in Role, permission \in Permission :
       /\ arg' = [role |-> role, permission |-> permission]
       /\ ret' = hasPermission(role, permission)
  /\ op' = "hasPermission"
  /\ UNCHANGED <<inputs, steps>>

CallGetPermissionsForRole ==
  /\ op = "idle"
  /\ \E role \in Role :
       /\ arg' = [role |-> role]
       /\ ret' = getPermissionsForRole(role)
  /\ op' = "getPermissionsForRole"
  /\ UNCHANGED <<inputs, steps>>

CallHasAnyPermission ==
  /\ op = "idle"
  /\ \E role \in Role, permissions \in SeqUpTo(Permission, MaxPermissions) :
       /\ arg' = [role |-> role, permissions |-> permissions]
       /\ ret' = hasAnyPermission(role, permissions)
  /\ op' = "hasAnyPermission"
  /\ UNCHANGED <<inputs, steps>>

CallHasAllPermissions ==
  /\ op = "idle"
  /\ \E role \in Role, permissions \in SeqUpTo(Permission, MaxPermissions) :
       /\ arg' = [role |-> role, permissions |-> permissions]
       /\ ret' = hasAllPermissions(role, permissions)
  /\ op' = "hasAllPermissions"
  /\ UNCHANGED <<inputs, steps>>

CallIsRoleAtLeast ==
  /\ op = "idle"
  /\ \E role \in Role, minimumRole \in Role :
       /\ arg' = [role |-> role, minimumRole |-> minimumRole]
       /\ ret' = isRoleAtLeast(role, minimumRole)
  /\ op' = "isRoleAtLeast"
  /\ UNCHANGED <<inputs, steps>>

NextRoles ==
  \/ CallIsRoleAtLeast
  \/ CallHasPermission
  \/ CallHasAnyPermission
  \/ CallHasAllPermissions
  \/ CallGetPermissionsForRole

SpecRoles == InitRoles /\ [][NextRoles]_vars

\* SpecSteps: the calls taken statement by statement.  A Start action draws
\* the arguments and lays them out in the heap; the inputs variables keep the
\* arguments as they were passed.
InitSteps ==
  /\ characterActors = <<>>
  /\ blocks = <<>>
  /\ blocksB = <<>>
  /\ block = NoBlock
  /\ events = <<>>
  /\ op = "idle"
  /\ arg = NoCall
  /\ ret = <<>>
  /\ NoSteps

\* the frame of the innermost call of recurse
Top == stack[Len(stack)]
\* return from the innermost call of recurse
Pop == SubSeq(stack, 1, Len(stack) - 1)
\* characterActors[index] of the innermost call
TopCharInfo == characterActors[Top.index + 1]

\* generateCombinations(characterActors) up to recurse(0, {}, new Set()), on
\* characters with different IDs and candidate lists that name no actor twice
StartGenerateCombinations ==
  /\ op = "idle"
  /\ \E n \in 0..MaxCharacters :
       \E lists \in ActorSetSeqs(n) :
         characterActors' =
           MakeCharacters([i \in 1..n |-> CharacterIdList[i]], lists)
  /\ op' = "generateCombinations"
  /\ arg' = NoCall
  /\ IF Len(characterActors') = 0
     THEN /\ pc' = "done"
          /\ ret' = <<>>
          /\ UNCHANGED <<heap, arrays, locals, stack>>
     ELSE /\ pc' = "recurse"
          /\ heap' = <<EmptyObject>>
          /\ arrays' = [a \in {"results"} |-> <<>>]
          /\ locals' = [current |-> 1, usedActors |-> {}]
          /\ stack' = <<[index |-> 0, k |-> 0, at |-> "entry"]>>
          /\ UNCHANGED ret
  /\ UNCHANGED <<blocks, blocksB, block, events>>

\* generateCombinationsAllowingMultipleRoles(characterActors) up to
\* recurse(0, {})
StartGenerateCombinationsAllowingMultipleRoles ==
  /\ op = "idle"
  /\ \E n \in 0..MaxCharacters :
       \E lists \in ActorSetSeqs(n) :
         characterActors' =
           MakeCharacters([i \in 1..n |-> CharacterIdList[i]], lists)
  /\ op' = "generateCombinationsAllowingMultipleRoles"
  /\ arg' = NoCall
  /\ IF Len(characterActors') = 0
     THEN /\ pc' = "done"
          /\ ret' = <<>>
          /\ UNCHANGED <<heap, arrays, locals, stack>>
     ELSE /\ pc' = "recurse"
          /\ heap' = <<EmptyObject>>
          /\ arrays' = [a \in {"results"} |-> <<>>]
          /\ locals' = [current |-> 1]
          /\ stack' = <<[index |-> 0, k |-> 0, at |-> "entry"]>>
          /\ UNCHANGED ret
  /\ UNCHANGED <<blocks, blocksB, block, events>>

\* entry of recurse: push a copy and return at index = length, return at an
\* empty candidate list, otherwise enter the loop
RecurseEnter ==
  /\ pc = "recurse"
  /\ stack # <<>>
  /\ Top.at = "entry"
  /\ IF Top.index = Len(characterActors)
     THEN LET pushed == PushCopyOf(heap, arrays["results"], locals.current)
          IN /\ heap' = pushed.heap
             /\ arrays' = [arrays EXCEPT !["results"] = pushed.results]
             /\ stack' = Pop
     ELSE IF Len(TopCharInfo.actors) = 0
     THEN /\ stack' = Pop
          /\ UNCHANGED <<heap, arrays>>
     ELSE /\ stack' = [stack EXCEPT ![Len(stack)] = [@ EXCEPT !.at = "loop", !.k = 1]]
          /\ UNCHANGED <<heap, arrays>>
  /\ UNCHANGED <<inputs, op, arg, ret, locals, pc>>

\* one turn of for (const actorId of actors): leave the loop, skip a used
\* actor, or assign and call recurse(index + 1, ...)
RecurseLoop ==
  /\ pc = "recurse"
  /\ stack # <<>>
  /\ Top.at = "loop"
  /\ IF LoopDone(TopCharInfo.actors, Top.k)
     THEN /\ stack' = Pop
          /\ UNCHANGED <<heap, locals>>
     ELSE LET actorId == TopCharInfo.actors[Top.k]
          IN IF op = "generateCombinations"
             THEN IF AlreadyUsed(locals.usedActors, actorId)
                  THEN /\ stack' = [stack EXCEPT ![Len(stack)].k = @ + 1]
                       /\ UNCHANGED <<heap, locals>>
                  ELSE LET assigned == Assign(SearchState(heap, locals),
                                             TopCharInfo.characterId, actorId)
                       IN /\ heap' = [heap EXCEPT ![locals.current] = assigned.current]
                          /\ locals' = [locals EXCEPT !.usedActors = assigned.usedActors]
                          /\ stack' = Append([stack EXCEPT ![Len(stack)].at = "undo"],
                                             [index |-> Top.index + 1, k |-> 0, at |-> "entry"])
             ELSE LET assigned == AssignMulti(SearchStateMulti(heap, locals),
                                              TopCharInfo.characterId, actorId)
                  IN /\ heap' = [heap EXCEPT ![locals.current] = assigned.current]
                     /\ stack' = Append([stack EXCEPT ![Len(stack)].at = "undo"],
                                        [index |-> Top.index + 1, k |-> 0, at |-> "entry"])
                     /\ UNCHANGED locals
  /\ UNCHANGED <<inputs, op, arg, ret, arrays, pc>>

\* back from recurse(index + 1, ...): undo the assignment, next actor
RecurseUndo ==
  /\ pc = "recurse"
  /\ stack # <<>>
  /\ Top.at = "undo"
  /\ LET actorId == TopCharInfo.actors[Top.k]
     IN IF op = "generateCombinations"
        THEN LET undone == Unassign(SearchState(heap, locals),
                                    TopCharInfo.characterId, actorId)
             IN /\ heap' = [heap EXCEPT ![locals.current] = undone.current]
                /\ locals' = [locals EXCEPT !.usedActors = undone.usedActors]
        ELSE LET undone == UnassignMulti(SearchStateMulti(heap, locals),
                                         TopCharInfo.characterId)
             IN /\ heap' = [heap EXCEPT ![locals.current] = undone.current]
                /\ UNCHANGED locals
  /\ stack' = [stack EXCEPT ![Len(stack)] = [@ EXCEPT !.at = "loop", !.k = @ + 1]]
  /\ UNCHANGED <<inputs, op, arg, ret, arrays, pc>>

\* recurse(0, ...) has returned: return results
ReturnResults ==
  /\ pc = "recurse"
  /\ stack = <<>>
  /\ pc' = "done"
  /\ ret' = Deref(heap, arrays["results"])
  /\ UNCHANGED <<inputs, op, arg, heap, arrays, locals, stack>>

\* mergeTimeBlocks(blocks) up to the empty check
StartMergeTimeBlocks ==
  /\ op = "idle"
  /\ blocks' \in SeqUpTo(OperandBlocks, MaxOperand)
  /\ op' = "mergeTimeBlocks"
  /\ arg' = NoCall
  /\ heap' = blocks'
  /\ arrays' = [a \in {"blocks"} |-> NewAddresses(<<>>, Len(blocks'))]
  /\ IF Len(blocks') = 0
     THEN pc' = "done" /\ ret' = <<>>
     ELSE pc' = "sort" /\ UNCHANGED ret
  /\ UNCHANGED <<characterActors, blocksB, block, events, locals, stack>>

\* sorted = [...blocks].sort(...); merged = [{ start, end } of sorted[0]]
MergeSort ==
  /\ op = "mergeTimeBlocks"
  /\ pc = "sort"
  /\ LET sorted == SortedCopy(heap, arrays, "blocks", "sorted")
         firstBlock == heap[sorted["sorted"][1]]
         new == NewBlock(heap, firstBlock.start, firstBlock.end)
     IN /\ heap' = new.heap
        /\ arrays' = [a \in (DOMAIN sorted) \cup {"merged"} |->
                        IF a = "merged" THEN <<new.ref>> ELSE sorted[a]]
  /\ locals' = [i |-> 1]
  /\ pc' = "loop"
  /\ UNCHANGED <<inputs, op, arg, ret, stack>>

\* for (let i = 1; i < sorted.length; i++) { ... }, one turn
MergeStep ==
  /\ op = "mergeTimeBlocks"
  /\ pc = "loop"
  /\ locals.i < Len(arrays["sorted"])
  /\ LET body == MergeBody(heap, arrays["sorted"], arrays["merged"], locals.i + 1)
     IN /\ heap' = body.heap
        /\ arrays' = [arrays EXCEPT !["merged"] = body.merged]
  /\ locals' = [locals EXCEPT !.i = @ + 1]
  /\ UNCHANGED <<inputs, op, arg, ret, stack, pc>>

\* return merged
MergeReturn ==
  /\ op = "mergeTimeBlocks"
  /\ pc = "loop"
  /\ ~(locals.i < Len(arrays["sorted"]))
  /\ pc' = "done"
  /\ ret' = Deref(heap, arrays["merged"])
  /\ UNCHANGED <<inputs, op, arg, heap, arrays, locals, stack>>

\* subtractTimeBlocks(block, events) up to remaining = [block]
StartSubtractTimeBlocks ==
  /\ op = "idle"
  /\ block' \in OperandBlocks
  /\ events' \in SeqUpTo(OperandBlocks, MaxOperand)
  /\ op' = "subtractTimeBlocks"
  /\ arg' = NoCall
  /\ heap' = <<block'>> \o events'
  /\ arrays' = [a \in {"events", "remaining"} |->
                  IF a = "events" THEN NewAddresses(<<block'>>, Len(events'))
                  ELSE <<1>>]
  /\ locals' = [block |-> 1, e |-> 0]
  /\ pc' = "events"
  /\ UNCHANGED <<characterActors, blocks, blocksB, ret, stack>>

\* for (const event of events) { ...; remaining = newRemaining }, one turn
SubtractEvent ==
  /\ op = "subtractTimeBlocks"
  /\ pc = "events"
  /\ locals.e < Len(arrays["events"])
  /\ LET newRemaining == subtractFromEachRefs(heap, arrays["remaining"],
                                              arrays["events"][locals.e + 1])
     IN /\ heap' = newRemaining.heap
        /\ arrays' = [arrays EXCEPT !["remaining"] = newRemaining.refs]
  /\ locals' = [locals EXCEPT !.e = @ + 1]
  /\ UNCHANGED <<inputs, op, arg, ret, stack, pc>>

\* return remaining
SubtractReturn ==
  /\ op = "subtractTimeBlocks"
  /\ pc = "events"
  /\ ~(locals.e < Len(arrays["events"]))
  /\ pc' = "done"
  /\ ret' = Deref(heap, arrays["remaining"])
  /\ UNCHANGED <<inputs, op, arg, heap, arrays, locals, stack>>

\* the blocks with start < end over the instants 0..2
EarlyOperandBlocks == {b \in OperandBlocks : b.end <= 2}

\* intersectTimeBlocks(blocksA, blocksB) up to the empty check
StartIntersectTimeBlocks ==
  /\ op = "idle"
  /\ blocks' \in SeqUpTo(EarlyOperandBlocks, MaxOperand)
  /\ blocksB' \in SeqUpTo(EarlyOperandBlocks, MaxOperand)
  /\ op' = "intersectTimeBlocks"
  /\ arg' = NoCall
  /\ heap' = blocks' \o blocksB'
  /\ arrays' = [a \in {"blocksA", "blocksB"} |->
                  IF a = "blocksA" THEN NewAddresses(<<>>, Len(blocks'))
                  ELSE NewAddresses(blocks', Len(blocksB'))]
  /\ IF Len(blocks') = 0 \/ Len(blocksB') = 0
     THEN pc' = "done" /\ ret' = <<>>
     ELSE pc' = "sort" /\ UNCHANGED ret
  /\ UNCHANGED <<characterActors, block, events, locals, stack>>

\* sortedA, sortedB = [...].sort(...); i = 0; j = 0; result = []
IntersectSort ==
  /\ op = "intersectTimeBlocks"
  /\ pc = "sort"
  /\ LET sortedA == SortedCopy(heap, arrays, "blocksA", "sortedA")
         sortedB == SortedCopy(heap, sortedA, "blocksB", "sortedB")
     IN arrays' = [a \in (DOMAIN sortedB) \cup {"result"} |->
                     IF a = "result" THEN <<>> ELSE sortedB[a]]
  /\ locals' = [i |-> 0, j |-> 0, iterations |-> 0]
  /\ pc' = "while"
  /\ UNCHANGED <<inputs, op, arg, ret, heap, stack>>

\* while (i < sortedA.length && j < sortedB.length) { ... }, one turn;
\* iterations counts the turns
IntersectStep ==
  /\ op = "intersectTimeBlocks"
  /\ pc = "while"
  /\ locals.i < Len(arrays["sortedA"]) /\ locals.j < Len(arrays["sortedB"])
  /\ LET body == IntersectBody(heap, arrays["sortedA"], arrays["sortedB"],
                               arrays["result"], locals.i, locals.j)
     IN /\ heap' = body.heap
        /\ arrays' = [arrays EXCEPT !["result"] = body.result]
        /\ locals' = [i |-> body.i, j |-> body.j,
                      iterations |-> locals.iterations + 1]
  /\ UNCHANGED <<inputs, op, arg, ret, stack, pc>>

\* return result
IntersectReturn ==
  /\ op = "intersectTimeBlocks"
  /\ pc = "while"
  /\ ~(locals.i < Len(arrays["sortedA"]) /\ locals.j < Len(arrays["sortedB"]))
  /\ pc' = "done"
  /\ ret' = Deref(heap, arrays["result"])
  /\ UNCHANGED <<inputs, op, arg, heap, arrays, locals, stack>>

\* a caller starts a call
StartCall ==
  \/ StartGenerateCombinations
  \/ StartGenerateCombinationsAllowingMultipleRoles
  \/ StartMergeTimeBlocks
  \/ StartSubtractTimeBlocks
  \/ StartIntersectTimeBlocks

\* the call in progress takes its next step
RunCall ==
  \/ RecurseEnter
  \/ RecurseLoop
  \/ RecurseUndo
  \/ ReturnResults
  \/ MergeSort
  \/ MergeStep
  \/ MergeReturn
  \/ SubtractEvent
  \/ SubtractReturn
  \/ IntersectSort
  \/ IntersectStep
  \/ IntersectReturn

NextSteps == StartCall \/ RunCall

SpecSteps == InitSteps /\ [][NextSteps]_vars

(***************************************************************************)
(* Vocabulary of the properties.                                           *)
(***************************************************************************)
CharacterIdsOf(chars) == {chars[i].characterId : i \in DOMAIN chars}

CandidatesOf(chars, i) == {chars[i].actors[k] : k \in DOMAIN chars[i].actors}

AllCandidates(chars) == UNION {CandidatesOf(chars, i) : i \in DOMAIN chars}

DistinctCharacterIds(chars) ==
  \A i, j \in DOMAIN chars : i # j => chars[i].characterId # chars[j].characterId

DuplicateFreeCandidates(chars) ==
  \A i \in DOMAIN chars : \A k, l \in DOMAIN chars[i].actors :
    k # l => chars[i].actors[k] # chars[i].actors[l]

SomeCharacterWithoutCandidates(chars) ==
  \E i \in DOMAIN chars : chars[i].actors = <<>>

\* actors of an assignment are pairwise distinct
PairwiseDistinctActors(assignment) ==
  \A c1, c2 \in DOMAIN assignment : c1 # c2 => assignment[c1] # assignment[c2]

\* total assignments, one own candidate per character, no actor twice
ValidExclusiveAssignments(chars) ==
  {f \in [CharacterIdsOf(chars) -> ActorIds] :
     /\ \A i \in DOMAIN chars : f[chars[i].characterId] \in CandidatesOf(chars, i)
     /\ PairwiseDistinctActors(f)}

\* one position of the candidate list per character
Choices(chars) ==
  {t \in [DOMAIN chars -> 1..MaxActors] :
     \A i \in DOMAIN chars : t[i] <= Len(chars[i].actors)}

\* assignment is the one choice t stands for (character IDs distinct)
IsAssignmentOfChoice(chars, assignment, t) ==
  /\ DOMAIN assignment = CharacterIdsOf(chars)
  /\ \A i \in DOMAIN chars : assignment[chars[i].characterId] = chars[i].actors[t[i]]

WellFormed(b) == b.start < b.end

\* instant t lies inside some block of bs (blocks are [start, end))
Covered(bs, t) == \E k \in DOMAIN bs : bs[k].start <= t /\ t < bs[k].end

\* end minus start, in instants
Duration(b) == b.end - b.start

RECURSIVE TotalDuration(_)
TotalDuration(bs) ==
  IF bs = <<>> THEN 0 ELSE Duration(Head(bs)) + TotalDuration(Tail(bs))

\* the only event of a one-element events list
TheEvent == events[1]

\* the lists holding the blocks of bs in some order
Permuted(bs) ==
  {[i \in DOMAIN bs |-> bs[p[i]]] :
     p \in {q \in [DOMAIN bs -> DOMAIN bs] :
              \A i, j \in DOMAIN bs : q[i] = q[j] => i = j}}

\* the instants of 0..3 inside some block of bs
InstantsOf(bs) == {t \in {0, 1, 2, 3} : Covered(bs, t)}

(***************************************************************************)
(* Properties.                                                             *)
(***************************************************************************)
\* C1: every assignment returned by generateCombinations gives pairwise
\* distinct actors to different characters, for every input list (repeated
\* character IDs and repeated candidates included).
C1_ExclusiveDistinctActors ==
  op = "generateCombinations" =>
    \A k \in DOMAIN ret : PairwiseDistinctActors(ret[k])

\* two characters share a candidate and a two-character assignment came back
C1_Witness ==
  /\ op = "generateCombinations"
  /\ \E i, j \in DOMAIN characterActors :
       /\ characterActors[i].characterId # characterActors[j].characterId
       /\ CandidatesOf(characterActors, i) \cap CandidatesOf(characterActors, j) # {}
  /\ \E k \in DOMAIN ret : Cardinality(DOMAIN ret[k]) = 2

\* C2: for a non-empty list with distinct character IDs and duplicate-free
\* candidate lists, generateCombinations returns exactly the total, own-
\* candidate, pairwise-distinct assignments, each exactly once.
C2_ExclusiveExact ==
  ( /\ op = "generateCombinations"
    /\ Len(characterActors) >= 1
    /\ DistinctCharacterIds(characterActors)
    /\ DuplicateFreeCandidates(characterActors) )
  => /\ {ret[k] : k \in DOMAIN ret} = ValidExclusiveAssignments(characterActors)
     /\ Len(ret) = Cardinality(ValidExclusiveAssignments(characterActors))

\* the example [{a:[x,y]},{b:[x,y]}]: two results, not four
C2_Witness ==
  /\ op = "generateCombinations"
  /\ Len(characterActors) = 2
  /\ DistinctCharacterIds(characterActors)
  /\ DuplicateFreeCandidates(characterActors)
  /\ Len(characterActors[1].actors) = 2
  /\ CandidatesOf(characterActors, 1) = CandidatesOf(characterActors, 2)
  /\ Len(ret) = 2

\* C3: for a non-empty list with distinct character IDs,
\* generateCombinationsAllowingMultipleRoles returns the Cartesian product of
\* the candidate lists: every choice of one list position per character
\* contributes exactly one result, and the number of results is the product
\* of the list sizes.
C3_MultiRoleCartesian ==
  ( /\ op = "generateCombinationsAllowingMultipleRoles"
    /\ Len(characterActors) >= 1
    /\ DistinctCharacterIds(characterActors) )
  => /\ Len(ret) = Cardinality(Choices(characterActors))
     /\ \A k \in DOMAIN ret : DOMAIN ret[k] = CharacterIdsOf(characterActors)
     /\ \A f \in [CharacterIdsOf(characterActors) -> ActorIds] :
          Cardinality({k \in DOMAIN ret : ret[k] = f})
            = Cardinality({t \in Choices(characterActors) :
                             IsAssignmentOfChoice(characterActors, f, t)})

\* four results for two characters, one of them reusing an actor
C3_Witness ==
  /\ op = "generateCombinationsAllowingMultipleRoles"
  /\ Len(characterActors) = 2
  /\ DistinctCharacterIds(characterActors)
  /\ Len(ret) = 4
  /\ \E k \in DOMAIN ret : ~PairwiseDistinctActors(ret[k])

\* C4: countPossibleCombinations(characters, false) is at least the number
\* of assignments generateCombinations(characters) returns (stated for the
\* lists with distinct character IDs and duplicate-free candidate lists).
C4_ExclusiveCountIsUpperBound ==
  ( /\ op = "countPossibleCombinations"
    /\ ~arg.allowMultipleRoles
    /\ DistinctCharacterIds(characterActors)
    /\ DuplicateFreeCandidates(characterActors) )
  => ret >= Len(generateCombinations(characterActors))

\* C5: an empty character list, or a character with an empty candidate
\* list, gives the empty result in both enumeration modes.
C5_DegenerateInputsEmpty ==
  ( /\ op \in {"generateCombinations", "generateCombinationsAllowingMultipleRoles"}
    /\ (Len(characterActors) = 0 \/ SomeCharacterWithoutCandidates(characterActors)) )
  => ret = <<>>

\* the first character has candidates, the second has none
C5_Witness ==
  /\ op = "generateCombinationsAllowingMultipleRoles"
  /\ Len(characterActors) = 2
  /\ characterActors[1].actors # <<>>
  /\ characterActors[2].actors = <<>>
  /\ ret = <<>>

\* C6: with more characters than distinct candidate actors,
\* countPossibleCombinations(characters, false) is 0 and generateCombinations
\* returns nothing.
C6_MoreCharactersThanActors ==
  Len(characterActors) > Cardinality(AllCandidates(characterActors))
  => /\ (op = "countPossibleCombinations" /\ ~arg.allowMultipleRoles) => ret = 0
     /\ op = "generateCombinations" => ret = <<>>

\* two castable characters competing for one actor
C6_Witness ==
  /\ op = "countPossibleCombinations"
  /\ ~arg.allowMultipleRoles
  /\ Len(characterActors) = 2
  /\ ~SomeCharacterWithoutCandidates(characterActors)
  /\ Cardinality(AllCandidates(characterActors)) = 1
  /\ ret = 0

\* C7: countPossibleCombinations(characters, true) is the number of
\* assignments generateCombinationsAllowingMultipleRoles returns (0 for the
\* empty list), and for a non-empty list the product of the list sizes.
C7_MultiRoleCountExact ==
  (op = "countPossibleCombinations" /\ arg.allowMultipleRoles)
  => /\ ret = Len(generateCombinationsAllowingMultipleRoles(characterActors))
     /\ Len(characterActors) = 0 => ret = 0
     /\ Len(characterActors) >= 1 => ret = Cardinality(Choices(characterActors))

C7_Witness ==
  /\ op = "countPossibleCombinations"
  /\ arg.allowMultipleRoles
  /\ Len(characterActors) = 2
  /\ ret = 4

\* C8: uncastableCharacterIds is exactly the IDs of the characters with an
\* empty candidate list, in input order, and valid holds iff it is empty.
C8_ValidateCastability ==
  op = "validateCastability" =>
    LET empty == {i \in DOMAIN characterActors : characterActors[i].actors = <<>>}
        nth(k) == CHOOSE i \in empty : Cardinality({j \in empty : j < i}) = k - 1
    IN /\ Len(ret.uncastableCharacterIds) = Cardinality(empty)
       /\ \A k \in 1..Cardinality(empty) :
            ret.uncastableCharacterIds[k] = characterActors[nth(k)].characterId
       /\ ret.valid <=> (ret.uncastableCharacterIds = <<>>)
       /\ Len(characterActors) = 0 => ret.valid

\* validateCastability([{a:[x]},{b:[]}]): valid = false, ['b']
C8_Witness ==
  /\ op = "validateCastability"
  /\ Len(characterActors) = 2
  /\ characterActors[1].actors # <<>>
  /\ characterActors[2].actors = <<>>
  /\ ~ret.valid
  /\ ret.uncastableCharacterIds = <<characterActors[2].characterId>>

\* C9: for blocks with start < end, in any order, the output of
\* mergeTimeBlocks is ascending by start and every output block ends
\* strictly before the next one starts.
C9_MergeSortedDisjoint ==
  (op = "mergeTimeBlocks" /\ \A i \in DOMAIN blocks : WellFormed(blocks[i]))
  => \A k \in 1..(Len(ret) - 1) :
       /\ ret[k].start < ret[k + 1].start
       /\ ret[k].end < ret[k + 1].start

\* three well-formed blocks, out of order, two blocks come back
C9_Witness ==
  /\ op = "mergeTimeBlocks"
  /\ Len(blocks) = 3
  /\ \A i \in DOMAIN blocks : WellFormed(blocks[i])
  /\ blocks[1].start > blocks[2].start
  /\ Len(ret) = 2

\* C10: an instant lies inside some block of mergeTimeBlocks(x) iff it lies
\* inside some block of x.
C10_MergeCoverage ==
  op = "mergeTimeBlocks" =>
    \A t \in 0..MaxTime : Covered(ret, t) <=> Covered(blocks, t)

\* a block strictly inside another one is absorbed
C10_Witness ==
  /\ op = "mergeTimeBlocks"
  /\ \E i, j \in DOMAIN blocks :
       /\ WellFormed(blocks[j])
       /\ blocks[i].start < blocks[j].start
       /\ blocks[j].end < blocks[i].end
  /\ Len(ret) < Len(blocks)

\* C11: merging is idempotent: merging the list mergeTimeBlocks returned
\* gives that list back.
C11_MergeIdempotent ==
  op = "mergeTimeBlocks" => mergeTimeBlocks(ret) = ret

\* three blocks out of order, some merged and some not
C11_Witness ==
  /\ op = "mergeTimeBlocks"
  /\ Len(blocks) = 3
  /\ blocks[1].start > blocks[2].start
  /\ Len(ret) = 2
  /\ mergeTimeBlocks(ret) = ret

\* C12: two blocks a, b (each with start before end) that only touch,
\* a.end = b.start, have an empty intersection, while merging them gives the
\* single block from a.start to b.end.
C12_TouchingAsymmetry ==
  /\ (op = "intersectTimeBlocks" /\ Len(blocks) = 1 /\ Len(blocksB) = 1
        /\ blocks[1].end = blocksB[1].start)
     => /\ ret = <<>>
        /\ mergeTimeBlocks(<<blocks[1], blocksB[1]>>)
             = <<[start |-> blocks[1].start, end |-> blocksB[1].end]>>
  /\ (op = "mergeTimeBlocks" /\ Len(blocks) = 2
        /\ blocks[1].end = blocks[2].start)
     => /\ ret = <<[start |-> blocks[1].start, end |-> blocks[2].end]>>
        /\ intersectTimeBlocks(<<blocks[1]>>, <<blocks[2]>>) = <<>>

\* the intersection of two touching blocks was computed and is empty
C12_Witness ==
  /\ op = "intersectTimeBlocks"
  /\ Len(blocks) = 1
  /\ Len(blocksB) = 1
  /\ blocks[1].end = blocksB[1].start
  /\ ret = <<>>

\* C13: for a block with start before end and events that all have start
\* before end (any order, overlapping or not), the fragments returned by
\* subtractTimeBlocks have positive duration, ascend, are pairwise disjoint,
\* and cover exactly the instants of the block that lie in no event; with no
\* events the result is the block alone.
C13_SubtractFragments ==
  op = "subtractTimeBlocks" =>
    /\ events = <<>> => ret = <<block>>
    /\ (WellFormed(block) /\ \A i \in DOMAIN events : WellFormed(events[i]))
       => /\ \A k \in DOMAIN ret : WellFormed(ret[k])
          /\ \A k \in 1..(Len(ret) - 1) :
               /\ ret[k].start < ret[k + 1].start
               /\ ret[k].end <= ret[k + 1].start
          /\ \A t \in 0..MaxTime :
               Covered(ret, t) <=> (Covered(<<block>>, t) /\ ~Covered(events, t))

\* two events out of order that overlap each other, something survives
C13_Witness ==
  /\ op = "subtractTimeBlocks"
  /\ WellFormed(block)
  /\ Len(events) = 2
  /\ \A i \in DOMAIN events : WellFormed(events[i])
  /\ events[1].start > events[2].start
  /\ isTimeBlockOverlapping(events[1], events[2])
  /\ Len(ret) >= 1

\* C14: for a block and a single event, both with start before end, and
\* event.start > block.start and event.end < block.end, the result is exactly
\* the two fragments [block.start, event.start] and [event.end, block.end],
\* and their durations add up to duration(block) - duration(event).
C14_SubtractConservation ==
  (/\ op \in {"subtractTimeBlock", "subtractTimeBlocks"}
   /\ Len(events) = 1
   /\ WellFormed(block)
   /\ WellFormed(TheEvent)
   /\ TheEvent.start > block.start
   /\ TheEvent.end < block.end)
  => /\ ret = <<[start |-> block.start, end |-> TheEvent.start],
                [start |-> TheEvent.end, end |-> block.end]>>
     /\ TotalDuration(ret) = Duration(block) - Duration(TheEvent)

\* an event of positive duration strictly inside the block was cut out
C14_Witness ==
  /\ op = "subtractTimeBlocks"
  /\ Len(events) = 1
  /\ WellFormed(TheEvent)
  /\ TheEvent.start > block.start
  /\ TheEvent.end < block.end
  /\ Len(ret) = 2

\* C15: an event that starts at or after block.end, or ends at or before
\* block.start, removes nothing: subtractTimeBlock returns the block alone.
C15_NoOverlapKeepsBlock ==
  (/\ op = "subtractTimeBlock"
   /\ (TheEvent.start >= block.end \/ TheEvent.end <= block.start))
  => ret = <<block>>

\* an event that starts exactly where the block ends
C15_Witness ==
  /\ op = "subtractTimeBlock"
  /\ WellFormed(block)
  /\ WellFormed(TheEvent)
  /\ TheEvent.start = block.end
  /\ ret = <<block>>

\* C16: for a block with start before end, a single event with
\* event.start <= block.start and event.end >= block.end (the block itself
\* included) leaves nothing.
C16_CoveringEventRemovesAll ==
  (/\ op \in {"subtractTimeBlock", "subtractTimeBlocks"}
   /\ Len(events) = 1
   /\ WellFormed(block)
   /\ TheEvent.start <= block.start
   /\ TheEvent.end >= block.end)
  => ret = <<>>

\* the block is cut out of itself
C16_Witness ==
  /\ op = "subtractTimeBlock"
  /\ WellFormed(block)
  /\ TheEvent = block
  /\ ret = <<>>

\* C19: for a block with start before end and a single event with
\* event.start >= event.end, the fragments returned do not overlap each other
\* and their durations add up to duration(block).
C19_MalformedEventZeroDuration ==
  (/\ op \in {"subtractTimeBlock", "subtractTimeBlocks"}
   /\ Len(events) = 1
   /\ WellFormed(block)
   /\ TheEvent.start >= TheEvent.end)
  => /\ \A i, j \in DOMAIN ret :
          i < j => ~isTimeBlockOverlapping(ret[i], ret[j])
     /\ TotalDuration(ret) = Duration(block)

\* C20: isTimeBlockOverlapping(a, b) is a.start < b.end and a.end > b.start;
\* swapping the arguments gives the same answer; blocks that only touch do
\* not overlap; for blocks with start before end the answer is TRUE exactly
\* when some instant lies inside both.
C20_OverlapStrictSymmetric ==
  op = "isTimeBlockOverlapping" =>
    /\ ret = (block.start < TheEvent.end /\ block.end > TheEvent.start)
    /\ ret = isTimeBlockOverlapping(TheEvent, block)
    /\ (block.end = TheEvent.start \/ TheEvent.end = block.start) => ret = FALSE
    /\ (WellFormed(block) /\ WellFormed(TheEvent))
       => (ret <=> \E t \in 0..MaxTime :
                     Covered(<<block>>, t) /\ Covered(<<TheEvent>>, t))

\* two blocks of positive duration that only touch
C20_Witness ==
  /\ op = "isTimeBlockOverlapping"
  /\ WellFormed(block)
  /\ WellFormed(TheEvent)
  /\ block.end = TheEvent.start
  /\ ret = FALSE

\* C17: every block intersectTimeBlocks returns has start before end; an
\* instant lies inside some returned block iff it lies inside some block of
\* the first argument and inside some block of the second (arguments may be
\* unsorted and may overlap themselves); an empty argument gives an empty
\* result.
C17_IntersectCoverage ==
  op = "intersectTimeBlocks" =>
    /\ \A k \in DOMAIN ret : WellFormed(ret[k])
    /\ InstantsOf(ret) = InstantsOf(blocks) \cap InstantsOf(blocksB)
    /\ (blocks = <<>> \/ blocksB = <<>>) => ret = <<>>

\* a first argument out of order, two overlaps found
C17_Witness ==
  /\ op = "intersectTimeBlocks"
  /\ Len(blocks) = 2
  /\ blocks[1].start > blocks[2].start
  /\ Len(ret) = 2

\* C18: putting the blocks of an argument in another order never changes the
\* list mergeTimeBlocks returns, nor the list intersectTimeBlocks returns.
C18_OrderNeverChangesList ==
  /\ op = "mergeTimeBlocks" =>
       \A p \in Permuted(blocks) : mergeTimeBlocks(p) = ret
  /\ op = "intersectTimeBlocks" =>
       /\ \A p \in Permuted(blocks) : intersectTimeBlocks(p, blocksB) = ret
       /\ \A q \in Permuted(blocksB) : intersectTimeBlocks(blocks, q) = ret

\* C23: putting the actors of one candidate list in another order changes
\* neither which assignments generateCombinations returns nor which ones
\* generateCombinationsAllowingMultipleRoles returns (nor how many); checked
\* on lists of characters with different IDs.
C23_CandidateOrderIrrelevant ==
  /\ op = "generateCombinations" =>
       \A i \in DOMAIN characterActors :
         \A p \in Permuted(characterActors[i].actors) :
           LET other == generateCombinations(
                          [characterActors EXCEPT ![i].actors = p])
           IN /\ {other[k] : k \in DOMAIN other} = {ret[k] : k \in DOMAIN ret}
              /\ Len(other) = Len(ret)
  /\ op = "generateCombinationsAllowingMultipleRoles" =>
       \A i \in DOMAIN characterActors :
         \A p \in Permuted(characterActors[i].actors) :
           LET other == generateCombinationsAllowingMultipleRoles(
                          [characterActors EXCEPT ![i].actors = p])
           IN /\ {other[k] : k \in DOMAIN other} = {ret[k] : k \in DOMAIN ret}
              /\ Len(other) = Len(ret)

\* two candidates in one list, and the reversed list returns the same
\* assignments in another order
C23_Witness ==
  /\ op = "generateCombinations"
  /\ Len(characterActors) = 2
  /\ Len(characterActors[1].actors) = 2
  /\ characterActors[1].actors[1] # characterActors[1].actors[2]
  /\ Len(ret) >= 2
  /\ generateCombinations(
       [characterActors EXCEPT ![1].actors =
          <<characterActors[1].actors[2], characterActors[1].actors[1]>>]) # ret

C27_ValidateIsSoundPrecheck ==
  op = "validateCastability" =>
    /\ ~ret.valid =>
         /\ generateCombinations(characterActors) = <<>>
         /\ generateCombinationsAllowingMultipleRoles(characterActors) = <<>>
    /\ (ret.valid /\ Len(characterActors) > 0) =>
         Len(generateCombinationsAllowingMultipleRoles(characterActors)) >= 1

\* valid, yet the exclusive enumeration finds nothing while the multi-role
\* one does
C27_Witness ==
  /\ op = "validateCastability"
  /\ ret.valid
  /\ Len(characterActors) = 2
  /\ generateCombinations(characterActors) = <<>>
  /\ generateCombinationsAllowingMultipleRoles(characterActors) # <<>>

\* C29: for two blocks a, b with start before end the three overlap notions
\* agree: isTimeBlockOverlapping(a, b) is TRUE iff intersectTimeBlocks([a],
\* [b]) is not empty iff subtractTimeBlock(a, b) is not [a].
C29_OverlapNotionsAgree ==
  (/\ op \in {"isTimeBlockOverlapping", "subtractTimeBlock"}
   /\ WellFormed(block)
   /\ WellFormed(TheEvent))
  => LET overlapping == IF op = "isTimeBlockOverlapping" THEN ret
                        ELSE isTimeBlockOverlapping(block, TheEvent)
         remaining == IF op = "subtractTimeBlock" THEN ret
                      ELSE subtractTimeBlock(block, TheEvent)
     IN /\ overlapping <=> intersectTimeBlocks(<<block>>, <<TheEvent>>) # <<>>
        /\ overlapping <=> remaining # <<block>>

\* an event that overlaps the end of the block: all three say so
C29_Witness ==
  /\ op = "subtractTimeBlock"
  /\ WellFormed(block)
  /\ WellFormed(TheEvent)
  /\ block.start < TheEvent.start
  /\ TheEvent.start < block.end
  /\ block.end < TheEvent.end
  /\ ret = <<[start |-> block.start, end |-> TheEvent.start]>>
  /\ isTimeBlockOverlapping(block, TheEvent)
  /\ intersectTimeBlocks(<<block>>, <<TheEvent>>) # <<>>

\* C30: for a block and events with start before end, subtractTimeBlocks
\* returns the same list for the events in any order, and the same list for
\* the merged events.
C30_SubtractOrderAndMergeInvariant ==
  (/\ op = "subtractTimeBlocks"
   /\ WellFormed(block)
   /\ \A i \in DOMAIN events : WellFormed(events[i]))
  => /\ \A p \in Permuted(events) : subtractTimeBlocks(block, p) = ret
     /\ subtractTimeBlocks(block, mergeTimeBlocks(events)) = ret

\* two overlapping events out of order that merge into one, and a fragment
\* survives
C30_Witness ==
  /\ op = "subtractTimeBlocks"
  /\ WellFormed(block)
  /\ Len(events) = 2
  /\ \A i \in DOMAIN events : WellFormed(events[i])
  /\ events[1].start > events[2].start
  /\ Len(mergeTimeBlocks(events)) = 1
  /\ ret # <<>>
  /\ subtractTimeBlocks(block, <<events[2], events[1]>>) = ret

\* C24: whenever isRoleAtLeast(role, minimumRole) is TRUE, every permission
\* ROLE_PERMISSIONS grants to minimumRole is granted to role too.
C24_HierarchyOrdersPermissions ==
  (op = "isRoleAtLeast" /\ ret = TRUE)
  => \A p \in Permission :
       hasPermission(arg.minimumRole, p) => hasPermission(arg.role, p)

\* what the result list of a running or finished enumeration holds
Recorded == IF "results" \in DOMAIN arrays THEN arrays["results"] ELSE <<>>

\* C21: an assignment recorded in the result list is a copy: no later step
\* changes it or its place in the list, no element of the list is the working
\* object, and every element maps every input character, up to and at return.
C21_ResultsAreCopies ==
  /\ [](\A k \in DOMAIN Recorded :
          /\ Recorded[k] # locals.current
          /\ DOMAIN heap[Recorded[k]] = CharacterIdsOf(characterActors))
  /\ [][\A k \in DOMAIN Recorded :
          /\ k \in DOMAIN Recorded'
          /\ Recorded'[k] = Recorded[k]
          /\ heap'[Recorded[k]] = heap[Recorded[k]]]_vars

\* returned with two assignments recorded while the working object has been
\* emptied again by the backtracking
C21_Witness ==
  /\ pc = "done"
  /\ op = "generateCombinations"
  /\ Len(Recorded) >= 2
  /\ heap[locals.current] = EmptyObject
  /\ \A k \in DOMAIN ret : DOMAIN ret[k] = CharacterIdsOf(characterActors)

LiveArgumentsAsPassed ==
  /\ op = "mergeTimeBlocks" => Deref(heap, arrays["blocks"]) = blocks
  /\ op = "intersectTimeBlocks" =>
       /\ Deref(heap, arrays["blocksA"]) = blocks
       /\ Deref(heap, arrays["blocksB"]) = blocksB
  /\ op = "subtractTimeBlocks" =>
       /\ heap[locals.block] = block
       /\ Deref(heap, arrays["events"]) = events

\* C22: mergeTimeBlocks, subtractTimeBlocks, intersectTimeBlocks and the two
\* enumerations leave their arguments as they were passed: during the call
\* and at return every argument array holds the same objects in the same
\* order, every argument block has the same start and end, and the character
\* list with its candidate lists is the same.
C22_ArgumentsUntouched ==
  /\ []LiveArgumentsAsPassed
  /\ [][op # "idle" => inputs' = inputs]_vars

\* an unsorted pair of blocks was sorted and merged into one, and the array
\* passed in still holds the two blocks in the order given
C22_Witness ==
  /\ op = "mergeTimeBlocks"
  /\ pc = "done"
  /\ Len(blocks) = 2
  /\ blocks[1].start > blocks[2].start
  /\ Len(ret) = 1
  /\ ret[1] # blocks[1]
  /\ Deref(heap, arrays["blocks"]) = blocks

\* how far the depth-first search has got, as a number written with one
\* digit per nesting level, outermost first: a frame in turn k of its loop
\* counts 2k, one more while its nested call runs, and a level that has
\* returned or was not entered counts as the highest digit
SearchDigits == 2 * MaxActors + 4
FrameDigit(d) ==
  IF d > Len(stack) THEN SearchDigits - 1
  ELSE 2 * stack[d].k + (IF stack[d].at = "undo" THEN 1 ELSE 0)
RECURSIVE SearchProgress(_)
SearchProgress(d) ==
  IF d = 0 THEN 0 ELSE SearchProgress(d - 1) * SearchDigits + FrameDigit(d)

\* one more than the progress of a search of d levels that has returned
RECURSIVE SearchEnd(_)
SearchEnd(d) == IF d = 0 THEN 1 ELSE SearchEnd(d - 1) * SearchDigits

\* a bound on the steps the running call has left, that every step lowers
StepsLeft ==
  CASE pc = "done" -> 0
    [] pc = "recurse" ->
         SearchEnd(Len(characterActors) + 1)
           - SearchProgress(Len(characterActors) + 1)
    [] op = "intersectTimeBlocks" /\ pc = "sort" ->
         2 + Len(blocks) + Len(blocksB)
    [] op = "intersectTimeBlocks" /\ pc = "while" ->
         1 + (Len(blocks) - locals.i) + (Len(blocksB) - locals.j)
    [] OTHER -> 0

Terminating ==
  {"generateCombinations", "generateCombinationsAllowingMultipleRoles",
   "intersectTimeBlocks"}

\* C28: the enumerations and the intersection loop terminate: the k-th nested
\* call of recurse has index k - 1, never above the number of characters; the
\* while loop of intersectTimeBlocks has advanced exactly one pointer per
\* turn, so it has made i + j turns, at most |a| + |b|; every step of a
\* running call lowers a bound on the steps that are left, which is never
\* negative, so no call runs forever.
C28_Termination ==
  /\ [](\A d \in DOMAIN stack :
          stack[d].index = d - 1 /\ stack[d].index <= Len(characterActors))
  /\ []((op = "intersectTimeBlocks" /\ pc = "while") =>
          /\ locals.iterations = locals.i + locals.j
          /\ locals.i <= Len(blocks)
          /\ locals.j <= Len(blocksB)
          /\ locals.iterations <= Len(blocks) + Len(blocksB))
  /\ [](StepsLeft >= 0)
  /\ [][(op \in Terminating) => (StepsLeft' < StepsLeft)]_vars

\* an intersection of two lists of two blocks that took three turns
C28_Witness ==
  /\ op = "intersectTimeBlocks"
  /\ pc = "done"
  /\ Len(blocks) = 2
  /\ Len(blocksB) = 2
  /\ locals.iterations = 3

====
